---- MODULE Spec2Model ----
(***************************************************************************)
(* Model of the rororun API routes: the Strava OAuth callback, the token   *)
(* read / refresh / upsert sequence of the score and nearby routes, and     *)
(* the data-API requests that follow it.                                    *)
(*                                                                          *)
(* Every request is a process.  Its pc names the await it is suspended on;  *)
(* an action is the resolution of that await followed by the synchronous    *)
(* code up to the next await (where the next outgoing call is issued).      *)
(* The strava_tokens table, the clock and the upstream OAuth server are the *)
(* shared state.                                                            *)
(***************************************************************************)
EXTENDS Integers, Sequences, FiniteSets, TLC

VARIABLES store, now, upstream, env, applied, req, calc

vars == <<store, now, upstream, env, applied, req, calc>>

(* ---- bounds of the model ---- *)
NumProcs == 2
MaxNow == 1
NumAthletes == 2
TokenTTL == 61

(* ---- program constant: `expires_at <= now + 60` ---- *)
Margin == 60

Procs == 1..NumProcs
Athletes == 1..NumAthletes
ErrBodies == {"invalid_grant", "rate_limited"}

RefreshHandlers == {"score_xoms", "score_lb", "score_inline", "nearby"}
ScoreHandlers == {"score_xoms", "score_lb", "score_inline", "score_norefresh"}
Handlers == ScoreHandlers \cup {"nearby", "callback"}

(* ---- values ---- *)
NoTok == <<"none", 0>>
AT(n) == <<"access", n>>
RT(n) == <<"refresh", n>>
NoRow == [athlete_id |-> 0, access_token |-> NoTok, refresh_token |-> NoTok,
          expires_at |-> 0, created_at |-> 0]
NoResp == [athlete_id |-> 0, access_token |-> NoTok, refresh_token |-> NoTok,
           expires_at |-> 0]
Pending == [ok |-> FALSE, error |-> "", details |-> ""]
Fail(e, d) == [ok |-> FALSE, error |-> e, details |-> d]
Success == [ok |-> TRUE, error |-> "", details |-> ""]

\* A request: h the route, pc the await it is suspended on, data the row of
\* tokenRes, access_token / refresh_token / expires_at / now the handler's
\* locals (now: the clock when the select resolved), refreshed the token
\* response, res the HTTP response.  reads, exch, writes and api log what the
\* request sent: selects, refresh tokens posted to the OAuth endpoint, upserts,
\* and bearer tokens sent to the data API.
IdleReq == [h |-> "none", pc |-> "idle", data |-> NoRow,
            access_token |-> NoTok, refresh_token |-> NoTok, expires_at |-> 0,
            now |-> 0, refreshed |-> NoResp, reads |-> 0, exch |-> <<>>,
            writes |-> 0, api |-> <<>>, res |-> Pending]

(* ---- the strava_tokens table ---- *)
\* A set of rows.  created_at is the insertion rank: it is set when a row is
\* inserted and kept by the update branch of an upsert, which writes only the
\* columns the handlers pass.  The scope column is informational and left out.

\* .order("created_at", { ascending: false }).limit(1).maybeSingle()
Latest(rows) ==
    IF rows = {} THEN NoRow
    ELSE CHOOSE r \in rows : \A o \in rows : o.created_at <= r.created_at

\* a plain insert: the row is added whether or not the athlete has one
InsertAlways(rows, rec) ==
    rows \cup {[athlete_id |-> rec.athlete_id, access_token |-> rec.access_token,
                refresh_token |-> rec.refresh_token, expires_at |-> rec.expires_at,
                created_at |-> Cardinality(rows) + 1]}

\* insert .. on conflict do nothing: an existing row is kept as it is
InsertIfAbsent(rows, rec) ==
    IF \E r \in rows : r.athlete_id = rec.athlete_id THEN rows
    ELSE InsertAlways(rows, rec)

\* .upsert({...}, { onConflict: "athlete_id" })
Upsert(rows, rec) ==
    IF \E r \in rows : r.athlete_id = rec.athlete_id
    THEN {IF r.athlete_id = rec.athlete_id
          THEN [r EXCEPT !.access_token = rec.access_token,
                         !.refresh_token = rec.refresh_token,
                         !.expires_at = rec.expires_at]
          ELSE r : r \in rows}
    ELSE InsertAlways(rows, rec)

RowOf(rows, a) == IF \E r \in rows : r.athlete_id = a
                  THEN CHOOSE r \in rows : r.athlete_id = a
                  ELSE NoRow

(* ---- expiry test ---- *)

NearExpiryStrict(expires_at, t) == expires_at < t + Margin
NearExpiryAlways(expires_at, t) == TRUE

\* if (expires_at <= now + 60)
NearExpiry(expires_at, t) == expires_at <= t + Margin

(* ---- upstream OAuth server ---- *)
\* Upstream numbers the token sets it issues; set n is the pair AT(n), RT(n).
\* Whether it still honours an older refresh token is left open: an exchange
\* may be granted or rejected whatever token is posted.

\* upstream[n] is the athlete that token set n was issued to
OwnerOf(tok) == IF tok[2] \in 1..Len(upstream) THEN upstream[tok[2]] ELSE 0
Issue(a, t) == [athlete_id |-> a, access_token |-> AT(Len(upstream) + 1),
                refresh_token |-> RT(Len(upstream) + 1),
                expires_at |-> t + TokenTTL]
\* the token set that upstream issued last to athlete a
LastIssued(a) ==
    IF \E n \in 1..Len(upstream) : upstream[n] = a
    THEN CHOOSE n \in 1..Len(upstream) :
            upstream[n] = a /\ \A m \in 1..Len(upstream) : upstream[m] = a => m <= n
    ELSE 0

\* calc holds one evaluation of the synchronous code that follows the data
\* requests (snapshot, scoring, parsing, formatting); the request model
\* leaves it alone
NoCalc == [fn |-> "none"]

Init ==
    /\ now = 0
    /\ env \in {"ok", "no_supabase", "no_strava"}
    /\ \/ store = {} /\ upstream = <<>>
       \/ /\ upstream = <<1>>
          /\ \E e \in {Margin, Margin + 1} :
                store = {[athlete_id |-> 1, access_token |-> AT(1),
                          refresh_token |-> RT(1), expires_at |-> e,
                          created_at |-> 1]}
    /\ applied = <<>>
    /\ req = [p \in Procs |-> IdleReq]
    /\ calc = NoCalc

Tick ==
    /\ now < MaxNow
    /\ now' = now + 1
    /\ UNCHANGED <<store, upstream, env, applied, req, calc>>

(* ---- request start: parameter and environment checks ---- *)

SetReq(p, r) == req' = [req EXCEPT ![p] = r]
Finish(p, r, result) == SetReq(p, [r EXCEPT !.pc = "done", !.res = result])
\* the handler holds a token and issues its first data-API request with it
SendApi(r, tok) == [r EXCEPT !.pc = "fetch", !.api = Append(@, tok)]
\* requests are numbered in the order they arrive
MayStart(p) == req[p].pc = "idle" /\ (IF p = 1 THEN TRUE ELSE req[p - 1].pc # "idle")

\* GET of the three score routes that refresh: id check, then the env checks
StartScore(p) ==
    /\ MayStart(p)
    /\ \E h \in {"score_xoms", "score_lb", "score_inline"}, idOk \in BOOLEAN :
          LET r == [req[p] EXCEPT !.h = h] IN
          IF ~idOk THEN Finish(p, r, Fail("Missing or invalid segment id", ""))
          ELSE IF env = "no_supabase" THEN Finish(p, r, Fail("Missing Supabase env vars", ""))
          ELSE IF env = "no_strava" THEN Finish(p, r, Fail("Missing Strava client env vars", ""))
          ELSE SetReq(p, [r EXCEPT !.pc = "read", !.reads = @ + 1])
    /\ UNCHANGED <<store, now, upstream, env, applied, calc>>

\* GET of the score route without refresh: id check; createClient throws
\* inside the try block when the Supabase URL is missing
StartScoreNoRefresh(p) ==
    /\ MayStart(p)
    /\ \E idOk \in BOOLEAN :
          LET r == [req[p] EXCEPT !.h = "score_norefresh"] IN
          IF ~idOk THEN Finish(p, r, Fail("Missing segment id", ""))
          ELSE IF env = "no_supabase" THEN Finish(p, r, Fail("supabaseUrl is required.", ""))
          ELSE SetReq(p, [r EXCEPT !.pc = "read", !.reads = @ + 1])
    /\ UNCHANGED <<store, now, upstream, env, applied, calc>>

\* GET of the nearby route: env checks, then lat/lng
StartNearby(p) ==
    /\ MayStart(p)
    /\ \E latLngOk \in BOOLEAN :
          LET r == [req[p] EXCEPT !.h = "nearby"] IN
          IF env = "no_supabase" THEN Finish(p, r, Fail("Missing Supabase env vars", ""))
          ELSE IF env = "no_strava" THEN Finish(p, r, Fail("Missing Strava client env vars", ""))
          ELSE IF ~latLngOk THEN Finish(p, r, Fail("Missing or invalid lat/lng", ""))
          ELSE SetReq(p, [r EXCEPT !.pc = "read", !.reads = @ + 1])
    /\ UNCHANGED <<store, now, upstream, env, applied, calc>>

(* ---- token read, refresh exchange, upsert ---- *)

\* tokenRes: the select either errors (data null) or yields the latest row
TokenRes(readOk, rows) ==
    [error |-> ~readOk, data |-> IF readOk THEN Latest(rows) ELSE NoRow]

NoTokensErrorOnly(tokenRes) == tokenRes.error

\* if (tokenRes.error || !tokenRes.data)   (the route without refresh tests
\* !tokenRes.data alone, and data is null whenever error is set)
NoTokens(tokenRes) == tokenRes.error \/ tokenRes.data = NoRow

\* the select resolves; the handler returns, issues the refresh exchange, or
\* issues its first data-API request with the stored token
ReadToken(p) ==
    /\ req[p].pc = "read"
    /\ \E readOk \in BOOLEAN :
          LET row == TokenRes(readOk, store).data
              r == [req[p] EXCEPT !.data = row, !.now = now] IN
          IF NoTokens(TokenRes(readOk, store))
          THEN Finish(p, r, Fail(IF r.h = "score_norefresh" THEN "No Strava tokens found"
                                 ELSE "No Strava tokens found in DB", ""))
          ELSE IF r.h = "score_norefresh"
          THEN SetReq(p, SendApi([r EXCEPT !.access_token = row.access_token],
                                 row.access_token))
          ELSE LET l == [r EXCEPT !.access_token = row.access_token,
                                  !.refresh_token = row.refresh_token,
                                  !.expires_at = row.expires_at] IN
               IF NearExpiry(l.expires_at, l.now)
               THEN SetReq(p, [l EXCEPT !.pc = "exchange",
                                        !.exch = Append(@, l.refresh_token)])
               ELSE SetReq(p, SendApi(l, l.access_token))
    /\ UNCHANGED <<store, now, upstream, env, applied, calc>>

\* as RefreshRejected, but the handler carries on with the stored token
RefreshRejectedUsesStale(p) ==
    /\ req[p].pc = "exchange"
    /\ SetReq(p, SendApi(req[p], req[p].access_token))
    /\ UNCHANGED <<store, now, upstream, env, applied, calc>>

\* as RefreshRejected, with a fixed message in place of the response text
RefreshRejectedNoBody(p) ==
    /\ req[p].pc = "exchange"
    /\ Finish(p, req[p], Fail("Token refresh failed", ""))
    /\ UNCHANGED <<store, now, upstream, env, applied, calc>>

\* the refresh exchange resolves with a non-success status
RefreshRejected(p) ==
    /\ req[p].pc = "exchange"
    /\ \E body \in ErrBodies :
          Finish(p, req[p],
                 IF req[p].h = "nearby" THEN Fail("Token refresh failed", body)
                 ELSE Fail("Strava refresh_token failed", body))
    /\ UNCHANGED <<store, now, upstream, env, applied, calc>>

\* the refresh exchange resolves with a new token set; the upsert is issued
RefreshGranted(p) ==
    /\ req[p].pc = "exchange"
    /\ LET resp == Issue(OwnerOf(req[p].exch[Len(req[p].exch)]), now) IN
          /\ upstream' = Append(upstream, resp.athlete_id)
          /\ SetReq(p, [req[p] EXCEPT !.pc = "upsert",
                                      !.refreshed = resp,
                                      !.access_token = resp.access_token,
                                      !.refresh_token = resp.refresh_token,
                                      !.expires_at = resp.expires_at,
                                      !.writes = @ + 1])
    /\ UNCHANGED <<store, now, env, applied, calc>>

\* the upsert resolves (its result is not inspected); the handler goes on to
\* its first data-API request with the refreshed token
RefreshUpsert(p) ==
    /\ req[p].pc = "upsert"
    /\ \E dbOk \in BOOLEAN :
          /\ store' = IF dbOk
                      THEN Upsert(store, [athlete_id |-> req[p].data.athlete_id,
                                          access_token |-> req[p].access_token,
                                          refresh_token |-> req[p].refresh_token,
                                          expires_at |-> req[p].expires_at])
                      ELSE store
          /\ applied' = IF dbOk THEN Append(applied, p) ELSE applied
    /\ SetReq(p, SendApi(req[p], req[p].access_token))
    /\ UNCHANGED <<now, upstream, env, calc>>

(* ---- data-API requests ---- *)

\* number of data-API requests a handler makes when none of them fails
ChainLen(h) == IF h = "score_lb" THEN 3
               ELSE IF h \in {"score_inline", "score_norefresh"} THEN 2
               ELSE 1
\* the i-th data-API request of handler h
FetchName(h, i) == IF h = "nearby" THEN "explore"
                   ELSE IF i = 1 THEN "seg"
                   ELSE IF i = 2 THEN "efforts"
                   ELSE "leaderboard"
\* a failed request ends the handler with an error, except the all_efforts
\* request of the two routes that only skip the PR when it fails
FetchFatal(h, i) == ~(h \in {"score_inline", "score_norefresh"} /\ i = 2)
FetchError(h, i) == IF h = "nearby" THEN "Strava explore failed"
                    ELSE IF i = 1 THEN "Segment fetch failed"
                    ELSE IF i = 2 THEN "Segment efforts fetch failed"
                    ELSE "Leaderboard fetch failed"
RECURSIVE Repeat(_, _)
Repeat(x, n) == IF n = 0 THEN <<>> ELSE Append(Repeat(x, n - 1), x)

\* the rest of the handler once its first data-API request is in flight: the
\* requests resolve in order, each one sent with the same Authorization
\* header; failAt is the first request that fails fatally (0: none)
DataResponses(p) ==
    /\ req[p].pc = "fetch"
    /\ \E failAt \in 0..ChainLen(req[p].h) :
          /\ failAt > 0 => FetchFatal(req[p].h, failAt)
          /\ LET sent == IF failAt = 0 THEN ChainLen(req[p].h) ELSE failAt
                 r == [req[p] EXCEPT !.api = @ \o Repeat(req[p].access_token, sent - 1)] IN
             Finish(p, r, IF failAt = 0 THEN Success
                          ELSE Fail(FetchError(r.h, failAt), "upstream"))
    /\ UNCHANGED <<store, now, upstream, env, applied, calc>>

(* ---- OAuth callback ---- *)

\* env checks, then the error and code query parameters; the
\* authorization-code exchange is issued
StartCallback(p) ==
    /\ MayStart(p)
    /\ \E errParam \in BOOLEAN, code \in BOOLEAN :
          LET r == [req[p] EXCEPT !.h = "callback"] IN
          IF env = "no_strava"
          THEN Finish(p, r, Fail("Missing STRAVA_CLIENT_ID or STRAVA_CLIENT_SECRET", ""))
          ELSE IF env = "no_supabase"
          THEN Finish(p, r, Fail("Missing NEXT_PUBLIC_SUPABASE_URL or SUPABASE_SERVICE_ROLE_KEY", ""))
          ELSE IF errParam THEN Finish(p, r, Fail("access_denied", ""))
          ELSE IF ~code THEN Finish(p, r, Fail("Missing code param from Strava", ""))
          ELSE SetReq(p, [r EXCEPT !.pc = "cb_exchange"])
    /\ UNCHANGED <<store, now, upstream, env, applied, calc>>

\* the authorization-code exchange resolves with a non-success status
CallbackRejected(p) ==
    /\ req[p].pc = "cb_exchange"
    /\ \E body \in ErrBodies : Finish(p, req[p], Fail("Token exchange failed", body))
    /\ UNCHANGED <<store, now, upstream, env, applied, calc>>

\* the exchange resolves with a token set; a is data.athlete.id, 0 when the
\* response carries none
CallbackGranted(p) ==
    /\ req[p].pc = "cb_exchange"
    /\ \E a \in Athletes \cup {0} :
          LET resp == Issue(a, now) IN
          /\ upstream' = Append(upstream, a)
          /\ IF a = 0
             THEN Finish(p, [req[p] EXCEPT !.refreshed = resp],
                         Fail("No athlete id in Strava response", ""))
             ELSE SetReq(p, [req[p] EXCEPT !.pc = "cb_upsert", !.refreshed = resp,
                                           !.writes = @ + 1])
    /\ UNCHANGED <<store, now, env, applied, calc>>

\* as CallbackUpsert, with upsertRes.error not inspected
CallbackUpsertUnchecked(p) ==
    /\ req[p].pc = "cb_upsert"
    /\ \E dbOk \in BOOLEAN :
          /\ store' = IF dbOk THEN Upsert(store, req[p].refreshed) ELSE store
          /\ applied' = IF dbOk THEN Append(applied, p) ELSE applied
          /\ Finish(p, req[p], Success)
    /\ UNCHANGED <<now, upstream, env, calc>>

\* the upsert resolves and its error is inspected
CallbackUpsert(p) ==
    /\ req[p].pc = "cb_upsert"
    /\ \E dbOk \in BOOLEAN :
          /\ store' = IF dbOk THEN Upsert(store, req[p].refreshed) ELSE store
          /\ applied' = IF dbOk THEN Append(applied, p) ELSE applied
          /\ Finish(p, req[p], IF dbOk THEN Success ELSE Fail("DB upsert failed", "db"))
    /\ UNCHANGED <<now, upstream, env, calc>>

Next ==
    \/ Tick
    \/ \E p \in Procs :
          \/ StartScore(p)
          \/ StartScoreNoRefresh(p)
          \/ StartNearby(p)
          \/ ReadToken(p)
          \/ RefreshRejected(p)
          \/ RefreshGranted(p)
          \/ RefreshUpsert(p)
          \/ DataResponses(p)
          \/ StartCallback(p)
          \/ CallbackRejected(p)
          \/ CallbackGranted(p)
          \/ CallbackUpsert(p)

Spec == Init /\ [][Next]_vars

(* ======================================================================= *)
(* Properties                                                              *)
(* ======================================================================= *)

Range(f) == {f[i] : i \in DOMAIN f}
\* the request went through the token manager and its select has resolved
Managed(p) == req[p].h \in RefreshHandlers /\ req[p].reads = 1 /\ req[p].pc # "read"
HasRow(p) == req[p].data # NoRow
Granted(p) == req[p].refreshed # NoResp
\* the record of the athlete holds the token set t
Holds(rows, a, t) ==
    LET row == RowOf(rows, a) IN
    /\ row.athlete_id = a
    /\ row.access_token = t.access_token
    /\ row.refresh_token = t.refresh_token
    /\ row.expires_at = t.expires_at

\* C1: when the token manager returns after a successful refresh exchange,
\* the athlete's record holds the access token, refresh token and expiry of
\* the refresh response, and the token returned is the response's access token.
C1_PersistedBeforeReturn ==
    [][\A p \in Procs :
          (req[p].h \in RefreshHandlers /\ req[p].pc = "upsert" /\ req'[p].pc # "upsert")
          => /\ Holds(store', req[p].data.athlete_id, req[p].refreshed)
             /\ req'[p].api = <<req[p].refreshed.access_token>>]_vars

\* C2: a request that read a record with expires_at > now + 60 uses the
\* stored access token, posts nothing to the OAuth endpoint and never writes
\* the store.
C2_FastPathHasNoEffects ==
    \A p \in Procs :
        (Managed(p) /\ HasRow(p) /\ req[p].data.expires_at > req[p].now + Margin)
        => /\ req[p].exch = <<>>
           /\ req[p].writes = 0
           /\ p \notin Range(applied)
           /\ req[p].refreshed = NoResp
           /\ req[p].api # <<>>
           /\ \A i \in DOMAIN req[p].api : req[p].api[i] = req[p].data.access_token

C2_Witness ==
    \E p \in Procs :
        /\ Managed(p) /\ HasRow(p) /\ req[p].data.expires_at > req[p].now + Margin
        /\ req[p].pc = "done" /\ req[p].res.ok

\* C3: a request whose refresh exchange was rejected issues no upsert, never
\* writes the store, sends nothing to the data API and ends with an error
\* that carries the upstream response body.
C3_RejectedRefreshLeavesStore ==
    \A p \in Procs :
        (Managed(p) /\ req[p].exch # <<>> /\ req[p].pc = "done" /\ ~Granted(p))
        => /\ req[p].writes = 0
           /\ p \notin Range(applied)
           /\ ~req[p].res.ok
           /\ req[p].res.error \in {"Strava refresh_token failed", "Token refresh failed"}
           /\ req[p].res.details \in ErrBodies

C3_Witness ==
    \E p \in Procs :
        /\ Managed(p) /\ req[p].exch # <<>> /\ req[p].pc = "done" /\ ~Granted(p)
        /\ req[p].res.details = "invalid_grant"
        /\ Holds(store, req[p].data.athlete_id, req[p].data)

\* C4: every bearer token sent to the data API was either read from a record
\* with expires_at > now + 60 or returned by a refresh exchange of the same
\* request.
C4_TokenSentIsValid ==
    \A p \in Procs : \A i \in DOMAIN req[p].api :
        \/ Granted(p) /\ req[p].api[i] = req[p].refreshed.access_token
        \/ /\ HasRow(p)
           /\ req[p].api[i] = req[p].data.access_token
           /\ req[p].data.expires_at > req[p].now + Margin

\* C5: the token manager posts a refresh exchange exactly when the record it
\* read has expires_at <= now + 60, posts at most one, and posts the stored
\* refresh token.
C5_OneExchangeIffNearExpiry ==
    \A p \in Procs :
        (Managed(p) /\ HasRow(p))
        => /\ Len(req[p].exch) <= 1
           /\ (Len(req[p].exch) = 1) <=> (req[p].data.expires_at <= req[p].now + Margin)
           /\ \A i \in DOMAIN req[p].exch : req[p].exch[i] = req[p].data.refresh_token

C5_Witness ==
    \E p \in Procs :
        /\ Managed(p) /\ HasRow(p)
        /\ req[p].data.expires_at = req[p].now + Margin
        /\ req[p].pc = "done" /\ ~Granted(p)
        /\ req[p].exch = <<req[p].data.refresh_token>>

\* the token set request p hands to its upsert
Written(p) == [athlete_id |-> IF req[p].h = "callback" THEN req[p].refreshed.athlete_id
                              ELSE req[p].data.athlete_id,
               access_token |-> req[p].refreshed.access_token,
               refresh_token |-> req[p].refreshed.refresh_token,
               expires_at |-> req[p].refreshed.expires_at]
\* positions in applied of the upserts that wrote athlete a
WritesOf(a) == {i \in DOMAIN applied : Written(applied[i]).athlete_id = a}
LastWriteOf(a) == CHOOSE i \in WritesOf(a) : \A j \in WritesOf(a) : j <= i
\* p and q refreshed the same near-expiry record and both upserts were applied
BothRefreshed(p, q) ==
    /\ p # q /\ Managed(p) /\ Managed(q) /\ HasRow(p)
    /\ req[p].data = req[q].data
    /\ Granted(p) /\ Granted(q)
    /\ p \in Range(applied) /\ q \in Range(applied)
NoWritePending == \A r \in Procs : req[r].pc \notin {"upsert", "cb_upsert"}

\* C6 as stated: once concurrent callers have each refreshed the same
\* near-expiry record and persisted the result, the record left in the store
\* is the token set that upstream issued last to the athlete.
C6_FinalRecordIsLastIssued ==
    \A p, q \in Procs :
        (BothRefreshed(p, q) /\ NoWritePending)
        => RowOf(store, req[p].data.athlete_id).refresh_token
              = RT(LastIssued(req[p].data.athlete_id))

\* C6 as amended: the record of an athlete is the token set of the upsert
\* that the store applied last for that athlete (last write wins), whatever
\* the order in which upstream issued the sets.
C6_LastWriteWins ==
    \A a \in Athletes :
        WritesOf(a) # {} => Holds(store, a, Written(applied[LastWriteOf(a)]))

C6_Witness ==
    \E p, q \in Procs :
        /\ BothRefreshed(p, q) /\ NoWritePending
        /\ applied = <<q, p>>
        /\ req[p].refreshed.refresh_token[2] < req[q].refreshed.refresh_token[2]
        /\ Holds(store, req[p].data.athlete_id, req[p].refreshed)
        /\ LastIssued(req[p].data.athlete_id) = req[q].refreshed.refresh_token[2]

\* C7: the store never holds two rows with the same athlete_id.
C7_OneRowPerAthlete ==
    \A r1, r2 \in store : r1.athlete_id = r2.athlete_id => r1 = r2

C7_Witness ==
    \E a \in Athletes :
        /\ Cardinality(WritesOf(a)) >= 2
        /\ \E i \in WritesOf(a) : req[applied[i]].h = "callback"
        /\ \E i \in WritesOf(a) : req[applied[i]].h \in RefreshHandlers
        /\ Cardinality({r \in store : r.athlete_id = a}) = 1

\* C8: refresh is not synchronized: any two requests that read the same
\* near-expiry record have each posted their own exchange with the same
\* stored refresh token.
C8_EachCallerRefreshes ==
    \A p, q \in Procs :
        (/\ p # q /\ Managed(p) /\ Managed(q) /\ HasRow(p)
         /\ req[p].data = req[q].data
         /\ req[p].data.expires_at <= req[p].now + Margin
         /\ req[q].data.expires_at <= req[q].now + Margin)
        => /\ req[p].exch = <<req[p].data.refresh_token>>
           /\ req[q].exch = req[p].exch

C8_Witness ==
    \E p, q \in Procs :
        /\ p # q
        /\ req[p].pc = "exchange" /\ req[q].pc = "exchange"
        /\ req[p].data = req[q].data
        /\ req[p].exch = <<req[p].data.refresh_token>>
        /\ req[q].exch = req[p].exch

\* C9: a request whose select found no record (or failed) ends with the
\* no-credential error, having posted nothing to the OAuth endpoint, sent
\* nothing to the data API and written nothing to the store.
C9_NoCredentialNoCalls ==
    \A p \in Procs :
        (/\ req[p].h \in RefreshHandlers \cup {"score_norefresh"}
         /\ req[p].reads = 1 /\ req[p].pc # "read" /\ ~HasRow(p))
        => /\ req[p].pc = "done"
           /\ ~req[p].res.ok
           /\ req[p].res.error \in {"No Strava tokens found in DB", "No Strava tokens found"}
           /\ req[p].exch = <<>>
           /\ req[p].api = <<>>
           /\ req[p].writes = 0
           /\ p \notin Range(applied)

C9_Witness ==
    /\ store = {}
    /\ \E p \in Procs :
          /\ req[p].h \in RefreshHandlers /\ req[p].reads = 1 /\ req[p].pc = "done"
          /\ req[p].res.error = "No Strava tokens found in DB"

\* C10: the callback upserts only after a granted exchange that names an
\* athlete; on an error parameter, a missing code, a rejected exchange or a
\* missing athlete id it writes nothing; and it answers ok only when its
\* upsert was applied, a failed upsert being answered with an error.
C10_CallbackWritesOnlyOnSuccess ==
    \A p \in Procs :
        req[p].h = "callback"
        => /\ req[p].writes <= 1
           /\ req[p].writes = 1 => (Granted(p) /\ req[p].refreshed.athlete_id \in Athletes)
           /\ p \in Range(applied) => req[p].writes = 1
           /\ (req[p].pc = "done" /\ req[p].res.error \in
                 {"access_denied", "Missing code param from Strava",
                  "Token exchange failed", "No athlete id in Strava response"})
              => req[p].writes = 0
           /\ (req[p].pc = "done" /\ req[p].res.ok) => p \in Range(applied)
           /\ (req[p].pc = "done" /\ req[p].writes = 1 /\ p \notin Range(applied))
              => (~req[p].res.ok /\ req[p].res.error = "DB upsert failed")

C10_Witness ==
    \E p \in Procs :
        /\ req[p].h = "callback" /\ req[p].pc = "done"
        /\ req[p].writes = 1 /\ p \notin Range(applied)
        /\ req[p].res.error = "DB upsert failed"

\* the refresh exchange of request p has come back rejected
RefreshFailed(p) ==
    /\ req[p].h \in RefreshHandlers
    /\ req[p].exch # <<>> /\ req[p].pc # "exchange" /\ ~Granted(p)

\* C21: in every handler that refreshes, a request whose refresh exchange
\* failed has ended with an error response and has sent no request to the
\* data API, with the stored token or any other, and nothing happens in that
\* request afterwards.
C21_FailedRefreshEndsRequest ==
    /\ [](\A p \in Procs :
             RefreshFailed(p) => /\ req[p].pc = "done"
                                 /\ ~req[p].res.ok
                                 /\ req[p].res.error # ""
                                 /\ req[p].api = <<>>)
    /\ [][\A p \in Procs : RefreshFailed(p) => req'[p] = req[p]]_vars

\* a request of the nearby route that ended on a failed refresh while another
\* request went on to the data API
C21_Witness ==
    \E p, q \in Procs :
        /\ RefreshFailed(p) /\ req[p].h = "nearby" /\ req[p].pc = "done"
        /\ req[p].api = <<>>
        /\ req[q].api # <<>>

(* ======================================================================= *)
(* Synchronous code: scoring, time parsing, formatting, snapshot           *)
(* ======================================================================= *)

(* ---- JavaScript values ---- *)
\* a number, NaN, null or a string (a sequence of one-character strings)
Num(n) == [t |-> "num", v |-> n, s |-> <<>>]
NaN == [t |-> "nan", v |-> 0, s |-> <<>>]
Null == [t |-> "null", v |-> 0, s |-> <<>>]
Str(chars) == [t |-> "str", v |-> 0, s |-> chars]

(* ---- weighted scoring ---- *)
\* Fractions are kept exact as integers times Scale: for whole seconds and
\* metres every value below is a whole multiple of 1/Scale.  The factor of
\* each quotient is divided first to keep the products small.
Scale == 60 * 50
Min2(a, b) == IF a <= b THEN a ELSE b
Max2(a, b) == IF a >= b THEN a ELSE b

\* Math.round of a value held times Scale
Round(x) == (2 * x + Scale) \div (2 * Scale)

\* function clamp(n, min = 0, max = 100)
clamp(n, min, max) == Max2(min, Min2(max, n))

gapScoreRising(gapSec) ==
    clamp(100 * Scale + gapSec * ((100 * Scale) \div 60), 0, 100 * Scale)

\* const gapScore = clamp(100 - (params.gapSec / 60) * 100)
gapScoreOf(gapSec) ==
    clamp(100 * Scale - gapSec * ((100 * Scale) \div 60), 0, 100 * Scale)

distPenaltyNone(distanceM) == 0

\* const distPenalty = clamp((params.distanceM / 5000) * 60, 0, 60)
distPenaltyOf(distanceM) == clamp(distanceM * ((60 * Scale) \div 5000), 0, 60 * Scale)

\* const elevPenalty = clamp((params.elevationGainM / 200) * 40, 0, 40)
elevPenaltyOf(elevationGainM) ==
    clamp(elevationGainM * ((40 * Scale) \div 200), 0, 40 * Scale)

\* const difficultyScore = clamp(100 - (distPenalty + elevPenalty))
difficultyScoreOf(distanceM, elevationGainM) ==
    clamp(100 * Scale - (distPenaltyOf(distanceM) + elevPenaltyOf(elevationGainM)),
          0, 100 * Scale)

sprintBonusLong(distanceM) == IF distanceM <= 600 THEN 0 ELSE IF distanceM <= 1200 THEN 5 ELSE 10

\* params.distanceM <= 600 ? 10 : params.distanceM <= 1200 ? 5 : 0
sprintBonusOf(distanceM) == IF distanceM <= 600 THEN 10 ELSE IF distanceM <= 1200 THEN 5 ELSE 0

winabilitySwapped(gapSec, distanceM, elevationGainM) ==
    clamp((gapScoreOf(gapSec) * 25 + difficultyScoreOf(distanceM, elevationGainM) * 65
           + sprintBonusOf(distanceM) * Scale * 10) \div 100, 0, 100 * Scale)

\* clamp(gapScore * 0.65 + difficultyScore * 0.25 + sprintBonus * 0.1)
winabilityOf(gapSec, distanceM, elevationGainM) ==
    clamp((gapScoreOf(gapSec) * 65 + difficultyScoreOf(distanceM, elevationGainM) * 25
           + sprintBonusOf(distanceM) * Scale * 10) \div 100, 0, 100 * Scale)

\* if (winability >= 70) color = "green"; else if (winability >= 40) ...
colorOf(winability) ==
    IF winability >= 70 * Scale THEN "green"
    ELSE IF winability >= 40 * Scale THEN "orange" ELSE "red"

\* computeWinability of score/route.ts (weighted).  A NaN gap passes through
\* clamp and Math.round as NaN and fails both colour comparisons.
computeWinability(gapSec, distanceM, elevationGainM) ==
    IF gapSec.t = "nan"
    THEN [winability |-> NaN, color |-> "red", gapScore |-> NaN,
          difficultyScore |-> Num(Round(difficultyScoreOf(distanceM, elevationGainM))),
          sprintBonus |-> sprintBonusOf(distanceM)]
    ELSE [winability |-> Num(Round(winabilityOf(gapSec.v, distanceM, elevationGainM))),
          color |-> colorOf(winabilityOf(gapSec.v, distanceM, elevationGainM)),
          gapScore |-> Num(Round(gapScoreOf(gapSec.v))),
          difficultyScore |-> Num(Round(difficultyScoreOf(distanceM, elevationGainM))),
          sprintBonus |-> sprintBonusOf(distanceM)]

\* computeWinability of the leaderboard route (the second copy)
computeWinabilityLb(gapSec, distanceM, elevationGainM) ==
    LET gapScore == IF gapSec.t = "nan" THEN 0
                    ELSE clamp(100 * Scale - gapSec.v * ((100 * Scale) \div 60), 0, 100 * Scale)
        distPenalty == clamp(distanceM * ((60 * Scale) \div 5000), 0, 60 * Scale)
        elevPenalty == clamp(elevationGainM * ((40 * Scale) \div 200), 0, 40 * Scale)
        difficultyScore == clamp(100 * Scale - (distPenalty + elevPenalty), 0, 100 * Scale)
        sprintBonus == IF distanceM <= 600 THEN 10 ELSE IF distanceM <= 1200 THEN 5 ELSE 0
        winability == clamp((gapScore * 65 + difficultyScore * 25
                             + sprintBonus * Scale * 10) \div 100, 0, 100 * Scale)
        color == IF gapSec.t = "nan" THEN "red"
                 ELSE IF winability >= 70 * Scale THEN "green"
                 ELSE IF winability >= 40 * Scale THEN "orange" ELSE "red"
    IN [winability |-> IF gapSec.t = "nan" THEN NaN ELSE Num(Round(winability)),
        color |-> color,
        gapScore |-> IF gapSec.t = "nan" THEN NaN ELSE Num(Round(gapScore)),
        difficultyScore |-> Num(Round(difficultyScore)),
        sprintBonus |-> sprintBonus]

(* ---- stepped scoring ---- *)

\* computeWinability of the inline-refresh score route; every comparison
\* with NaN is false
computeWinabilityStepped(gapSec) ==
    LET score == IF gapSec.t = "nan" THEN 15
                 ELSE IF gapSec.v <= 5 THEN 95
                 ELSE IF gapSec.v <= 15 THEN 80
                 ELSE IF gapSec.v <= 30 THEN 60
                 ELSE IF gapSec.v <= 60 THEN 40
                 ELSE 15
    IN [winability |-> score,
        color |-> IF score >= 70 THEN "green" ELSE IF score >= 40 THEN "orange" ELSE "red"]

\* computeWinability of the score route without refresh
computeWinabilityStepped2(gapSec) ==
    IF gapSec.t = "nan" THEN [score |-> 15, color |-> "red"]
    ELSE IF gapSec.v <= 5 THEN [score |-> 95, color |-> "green"]
    ELSE IF gapSec.v <= 15 THEN [score |-> 80, color |-> "green"]
    ELSE IF gapSec.v <= 30 THEN [score |-> 60, color |-> "orange"]
    ELSE IF gapSec.v <= 60 THEN [score |-> 40, color |-> "orange"]
    ELSE [score |-> 15, color |-> "red"]

(* ---- strings ---- *)
Digits == <<"0", "1", "2", "3", "4", "5", "6", "7", "8", "9">>
IsDigit(c) == \E i \in 1..10 : Digits[i] = c
DigitOf(c) == (CHOOSE i \in 1..10 : Digits[i] = c) - 1

RECURSIVE TrimStart(_)
TrimStart(str) ==
    IF str # <<>> /\ Head(str) = " " THEN TrimStart(Tail(str)) ELSE str

RECURSIVE TrimEnd(_)
TrimEnd(str) ==
    IF str # <<>> /\ str[Len(str)] = " "
    THEN TrimEnd(SubSeq(str, 1, Len(str) - 1)) ELSE str

\* String.prototype.trim
trim(str) == TrimEnd(TrimStart(str))

\* str.split(":"): the pieces between the colons; a string without a colon
\* is one piece, an empty piece is kept
RECURSIVE split(_)
split(str) ==
    IF \A i \in 1..Len(str) : str[i] # ":" THEN <<str>>
    ELSE LET k == CHOOSE i \in 1..Len(str) :
                      str[i] = ":" /\ \A j \in 1..(i - 1) : str[j] # ":"
         IN <<SubSeq(str, 1, k - 1)>> \o split(SubSeq(str, k + 1, Len(str)))

RECURSIVE DecimalValue(_)
DecimalValue(str) ==
    IF str = <<>> THEN 0
    ELSE 10 * DecimalValue(SubSeq(str, 1, Len(str) - 1)) + DigitOf(str[Len(str)])

\* Number(p) of a string: surrounding white space is dropped, the empty
\* string is 0, a digit string is its decimal value, other text is NaN
Number(str) ==
    LET u == trim(str)
    IN IF u = <<>> THEN Num(0)
       ELSE IF \A i \in 1..Len(u) : IsDigit(u[i]) THEN Num(DecimalValue(u))
       ELSE NaN

\* String(n) of an integer
RECURSIVE String(_)
String(n) ==
    IF n < 0 THEN <<"-">> \o String(-n)
    ELSE IF n < 10 THEN <<Digits[n + 1]>>
    ELSE String(n \div 10) \o <<Digits[(n % 10) + 1]>>

\* str.padStart(2, "0")
padStart(str) == IF Len(str) < 2 THEN <<"0">> \o str ELSE str

\* a % b of JavaScript for b > 0: the sign follows the dividend
Rem(a, b) == IF a >= 0 THEN a % b ELSE -((-a) % b)

(* ---- time parsing ---- *)

\* parseTimeToSeconds of the inline-refresh score route
parseTimeToSeconds(t) ==
    IF t.t = "num" THEN t
    ELSE IF t.t # "str" THEN Null
    ELSE LET pieces == split(trim(t.s))
             parts == [i \in 1..Len(pieces) |-> Number(pieces[i])]
         IN IF \E i \in 1..Len(parts) : parts[i].t # "num" THEN Null
            ELSE IF Len(parts) = 2 THEN Num(parts[1].v * 60 + parts[2].v)
            ELSE IF Len(parts) = 3
                 THEN Num(parts[1].v * 3600 + parts[2].v * 60 + parts[3].v)
            ELSE Null

\* parseTimeToSeconds of the score route without refresh
parseTimeToSeconds2(t) ==
    IF t.t = "num" THEN t
    ELSE IF t.t # "str" THEN Null
    ELSE LET pieces == split(trim(t.s))
             parts == [i \in 1..Len(pieces) |-> Number(pieces[i])]
         IN IF \E i \in 1..Len(parts) : parts[i].t # "num" THEN Null
            ELSE IF Len(parts) = 2 THEN Num(parts[1].v * 60 + parts[2].v)
            ELSE IF Len(parts) = 3
                 THEN Num(parts[1].v * 3600 + parts[2].v * 60 + parts[3].v)
            ELSE Null

(* ---- time formatting ---- *)
\* The formatters are applied to whole seconds, for which Math.round and
\* Math.floor of the remainders change nothing.

\* secondsToMMSS of the xoms score route and of the leaderboard route
secondsToMMSS(s) ==
    IF s.t # "num" \/ s.v < 0 THEN Null
    ELSE LET m == s.v \div 60
             r == Rem(s.v, 60)
         IN Str(String(m) \o <<":">> \o padStart(String(r)))

\* secondsToTime of the inline-refresh score route
secondsToTime(sec) ==
    IF sec.t # "num" THEN Null
    ELSE LET s == Max2(0, sec.v)
             h == s \div 3600
             m == Rem(s, 3600) \div 60
             r == Rem(s, 60)
         IN IF h > 0
            THEN Str(String(h) \o <<":">> \o padStart(String(m)) \o <<":">>
                     \o padStart(String(r)))
            ELSE Str(String(m) \o <<":">> \o padStart(String(r)))

\* secondsToTime of the score route without refresh: !sec is true for 0
secondsToTime2(sec) ==
    IF sec.t # "num" \/ sec.v = 0 THEN Null
    ELSE LET h == sec.v \div 3600
             m == Rem(sec.v, 3600) \div 60
             s == Rem(sec.v, 60)
         IN IF h > 0
            THEN Str(String(h) \o <<":">> \o padStart(String(m)) \o <<":">>
                     \o padStart(String(s)))
            ELSE Str(String(m) \o <<":">> \o padStart(String(s)))

(* ---- what the score handlers build from the fetched data ---- *)
NoNote == "null"

\* a ?? b
Coalesce(a, b) == IF a # Null THEN a ELSE b

\* a - b for a number a: a string operand is converted with Number
Minus(a, b) ==
    LET nb == IF b.t = "str" THEN Number(b.s) ELSE b
    IN IF a.t = "num" /\ nb.t = "num" THEN Num(a.v - nb.v) ELSE NaN

\* !x of a number, NaN or null
Falsy(x) == x.t \in {"null", "nan"} \/ (x.t = "num" /\ x.v = 0)

\* GET of the xoms score route: the reference is used as the API sent it
ResultXoms(pr, kom, overall, distanceM, elevHigh, elevLow) ==
    LET elevationGainM == Max2(0, elevHigh - elevLow)
        yourPRSec == pr
        komRefSec == Coalesce(kom, overall)
        gapSec == IF yourPRSec # Null /\ komRefSec # Null
                  THEN Minus(yourPRSec, komRefSec) ELSE Null
        scored == gapSec # Null
        score == computeWinability(gapSec, distanceM, elevationGainM)
        note == IF yourPRSec = Null
                THEN "No PR found for this segment yet. Run it once to compute your gap."
                ELSE IF komRefSec = Null
                THEN "No KOM reference available for this segment (xoms missing)."
                ELSE NoNote
    IN [pr |-> yourPRSec, kom |-> komRefSec, gap |-> gapSec, scored |-> scored,
        winability |-> IF scored THEN score.winability ELSE Null,
        color |-> IF scored THEN score.color ELSE "red",
        note |-> IF scored THEN NoNote ELSE note]

\* GET of the leaderboard route: both times are numbers of the API
ResultLb(pr, kom, distanceM, elevHigh, elevLow) ==
    LET elevationGainM == Max2(0, elevHigh - elevLow)
        yourPRSec == pr
        komSec == kom
        gapSec == IF yourPRSec # Null /\ komSec # Null
                  THEN Minus(yourPRSec, komSec) ELSE Null
        scored == gapSec # Null
        score == computeWinabilityLb(gapSec, distanceM, elevationGainM)
    IN [pr |-> yourPRSec, kom |-> komSec, gap |-> gapSec, scored |-> scored,
        winability |-> IF scored THEN score.winability ELSE Null,
        color |-> IF scored THEN score.color ELSE "red",
        note |-> IF scored THEN NoNote
                 ELSE "No PR found for this segment yet (or leaderboard unavailable)."]

\* GET of the inline-refresh score route
ResultInline(pr, kom, overall) ==
    LET prSeconds == pr
        komRaw == Coalesce(kom, overall)
        komSeconds == parseTimeToSeconds(komRaw)
        gapSeconds == IF prSeconds # Null /\ komSeconds # Null
                      THEN Minus(prSeconds, komSeconds) ELSE Null
        scored == gapSeconds # Null
        s == computeWinabilityStepped(gapSeconds)
    IN [pr |-> prSeconds, kom |-> komSeconds, gap |-> gapSeconds, scored |-> scored,
        winability |-> IF scored THEN Num(s.winability) ELSE Null,
        color |-> IF scored THEN s.color ELSE "red",
        note |-> IF scored THEN "Score based on PR vs KOM gap"
                 ELSE "No PR found for this segment yet. Run it once to compute your gap."]

ResultNoRefreshStrict(pr, kom, overall) ==
    LET prSeconds == pr
        komRaw == Coalesce(kom, overall)
        komSeconds == parseTimeToSeconds2(komRaw)
        gapSeconds == IF prSeconds # Null /\ komSeconds # Null
                      THEN Minus(prSeconds, komSeconds) ELSE Null
        scored == gapSeconds # Null
        score == computeWinabilityStepped2(gapSeconds)
    IN [pr |-> prSeconds, kom |-> komSeconds, gap |-> gapSeconds, scored |-> scored,
        winability |-> IF scored THEN Num(score.score) ELSE Null,
        color |-> IF scored THEN score.color ELSE "red",
        note |-> IF scored THEN "Score based on PR vs KOM gap"
                 ELSE "No PR found for this segment yet. Run it once to compute your gap."]

\* GET of the score route without refresh: prSeconds && komSeconds
ResultNoRefresh(pr, kom, overall) ==
    LET prSeconds == pr
        komRaw == Coalesce(kom, overall)
        komSeconds == parseTimeToSeconds2(komRaw)
        gapSeconds == IF ~Falsy(prSeconds) /\ ~Falsy(komSeconds)
                      THEN Minus(prSeconds, komSeconds) ELSE Null
        scored == gapSeconds # Null
        score == computeWinabilityStepped2(gapSeconds)
    IN [pr |-> prSeconds, kom |-> komSeconds, gap |-> gapSeconds, scored |-> scored,
        winability |-> IF scored THEN Num(score.score) ELSE Null,
        color |-> IF scored THEN score.color ELSE "red",
        note |-> IF scored THEN "Score based on PR vs KOM gap"
                 ELSE "No PR found for this segment yet. Run it once to compute your gap."]

\* the result of handler h; the leaderboard route has no xoms fallback
Result(h, pr, kom, overall, distanceM, elevHigh, elevLow) ==
    CASE h = "score_xoms" -> ResultXoms(pr, kom, overall, distanceM, elevHigh, elevLow)
      [] h = "score_lb" -> ResultLb(pr, kom, distanceM, elevHigh, elevLow)
      [] h = "score_inline" -> ResultInline(pr, kom, overall)
      [] h = "score_norefresh" -> ResultNoRefresh(pr, kom, overall)

(* ---- inputs of the scoring functions ---- *)
MaxGap == 62
MinGap == 3
Huge == 100000
DistStep == 500
MaxDistSteps == 11
ElevStep == 50
MaxElevSteps == 5

Gaps == (-MinGap..MaxGap) \cup {-Huge, Huge}
Dists == {k * DistStep : k \in -1..MaxDistSteps}
         \cup {500, 599, 600, 601, 1199, 1200, 1201, 4999, 5000, 5001, -Huge, Huge}
Elevs == {k * ElevStep : k \in -1..MaxElevSteps} \cup {105, 200, -Huge, Huge}

\* gapSec as the handlers pass it: a number, or NaN when the reference did
\* not convert to a number
GapInputs == {Num(g) : g \in Gaps} \cup {NaN}

\* one call of each scoring function on the same snapshot; gapScore,
\* distPenalty, elevPenalty, difficultyScore and raw are the unrounded locals
\* of the weighted function
Score ==
    /\ calc = NoCalc
    /\ \E g \in GapInputs, d \in Dists, e \in Elevs :
          calc' = [fn |-> "score", gap |-> g, d |-> d, e |-> e,
                   out |-> computeWinability(g, d, e),
                   lb |-> computeWinabilityLb(g, d, e),
                   st |-> computeWinabilityStepped(g),
                   st2 |-> computeWinabilityStepped2(g),
                   gapScore |-> IF g.t = "nan" THEN NaN ELSE Num(gapScoreOf(g.v)),
                   distPenalty |-> distPenaltyOf(d),
                   elevPenalty |-> elevPenaltyOf(e),
                   difficultyScore |-> difficultyScoreOf(d, e),
                   raw |-> IF g.t = "nan" THEN NaN ELSE Num(winabilityOf(g.v, d, e))]
    /\ UNCHANGED <<store, now, upstream, env, applied, req>>

(* ---- inputs of the time functions ---- *)
MaxStrLen == 5
MaxSeconds == 3725

Chars == {"0", "1", "5", ":", "x", " "}
Strings == UNION {[1..n -> Chars] : n \in 0..MaxStrLen}
         \cup {<<"5", ":", "5", "8">>, <<"1", ":", "0", "2", ":", "0", "3">>}

\* what a reference time can be: a string, a number, NaN, or nothing
TimeInputs == {Str(str) : str \in Strings} \cup {Num(358), Num(0), NaN, Null}

\* one call of each copy of parseTimeToSeconds
Parse ==
    /\ calc = NoCalc
    /\ \E t \in TimeInputs :
          calc' = [fn |-> "parse", in |-> t,
                   out |-> parseTimeToSeconds(t),
                   out2 |-> parseTimeToSeconds2(t)]
    /\ UNCHANGED <<store, now, upstream, env, applied, req>>

SecondsInputs ==
    {Num(n) : n \in (-1..MaxSeconds) \cup {36061, -61}} \cup {NaN, Null}

\* one call of each formatter of elapsed time
Format ==
    /\ calc = NoCalc
    /\ \E sec \in SecondsInputs :
          calc' = [fn |-> "format", in |-> sec,
                   mmss |-> secondsToMMSS(sec),
                   time |-> secondsToTime(sec),
                   time2 |-> secondsToTime2(sec)]
    /\ UNCHANGED <<store, now, upstream, env, applied, req>>

(* ---- inputs of the handlers ---- *)
MaxRefLen == 4

\* xoms.kom as the API can send it: text, a number, or nothing
RefInputs == {t \in TimeInputs : t.t = "str" => Len(t.s) <= MaxRefLen}
           \cup {Str(<<"5", ":", "5", "8">>), Str(<<"1", ":", "0", "2", ":", "0", "3">>)}
Overalls == {Null, Str(<<"5", ":", "5", "8">>)}
\* elapsed times of the API: a number of seconds, or nothing
PRs == {Null, Num(0), Num(370)}
KomTimes == {Null, Num(0), Num(358)}
Elevations == {<<105, 0>>, <<0, 200>>}

\* the response of one score request whose fetches succeeded
Respond(h, pr, kom, overall, distanceM, elev) ==
    /\ calc' = [fn |-> "respond", h |-> h, pr |-> pr, kom |-> kom,
                overall |-> overall, d |-> distanceM, elev |-> elev,
                out |-> Result(h, pr, kom, overall, distanceM, elev[1], elev[2])]
    /\ UNCHANGED <<store, now, upstream, env, applied, req>>

RespondXoms ==
    /\ calc = NoCalc
    /\ \E pr \in PRs, kom \in RefInputs, overall \in Overalls, elev \in Elevations :
          Respond("score_xoms", pr, kom, overall, 500, elev)

RespondLb ==
    /\ calc = NoCalc
    /\ \E pr \in PRs, kom \in KomTimes, elev \in Elevations :
          Respond("score_lb", pr, kom, Null, 500, elev)

RespondInline ==
    /\ calc = NoCalc
    /\ \E pr \in PRs, kom \in RefInputs, overall \in Overalls :
          Respond("score_inline", pr, kom, overall, 500, <<0, 0>>)

RespondNoRefresh ==
    /\ calc = NoCalc
    /\ \E pr \in PRs, kom \in RefInputs, overall \in Overalls :
          Respond("score_norefresh", pr, kom, overall, 500, <<0, 0>>)

CalcNext ==
    \/ Score
    \/ Parse
    \/ Format
    \/ RespondXoms
    \/ RespondLb
    \/ RespondInline
    \/ RespondNoRefresh

\* the synchronous code applied once to an input drawn from the sets above
CalcInit == Init /\ store = {} /\ env = "ok"

CalcSpec == CalcInit /\ [][CalcNext]_vars

(* ---- scoring properties ---- *)
IsScore == calc.fn = "score"

\* the tier the specification assigns to a returned score
TierOf(score) ==
    IF score.t # "num" THEN "red"
    ELSE IF score.v >= 70 THEN "green"
    ELSE IF score.v >= 40 THEN "orange" ELSE "red"

\* C13: the colour tier of a weighted result is determined by the returned
\* integer score: green iff score >= 70, orange iff 40 <= score < 70, red
\* otherwise (both copies of the weighted function)
C13_ColourFollowsScore ==
    IsScore => /\ calc.out.color = TierOf(calc.out.winability)
               /\ calc.lb.color = TierOf(calc.lb.winability)

\* C14 as stated: distance 500, gap 0, elevation gain 0 gives gapScore 100,
\* difficultyScore 100, sprintBonus 10, score 100, green
C14_ExampleAsStated ==
    (IsScore /\ calc.gap = Num(0) /\ calc.d = 500 /\ calc.e = 0) =>
        calc.out = [winability |-> Num(100), color |-> "green", gapScore |-> Num(100),
                    difficultyScore |-> Num(100), sprintBonus |-> 10]

\* C14 amended: distance 500, gap 0, elevation gain 0 gives gapScore 100,
\* difficultyScore 94 (distance penalty 6), sprintBonus 10, score 90, green
C14_Example ==
    (IsScore /\ calc.gap = Num(0) /\ calc.d = 500 /\ calc.e = 0) =>
        /\ calc.out = [winability |-> Num(90), color |-> "green", gapScore |-> Num(100),
                       difficultyScore |-> Num(94), sprintBonus |-> 10]
        /\ calc.distPenalty = 6 * Scale
        /\ calc.lb = calc.out

C14_Witness == IsScore /\ calc.gap = Num(0) /\ calc.d = 500 /\ calc.e = 0

InRange(x, lo, hi) == x.t = "num" /\ x.v \in lo..hi

\* C15: for every input the weighted function returns an integer score in
\* 0..100 and every intermediate stays inside its clamp bounds: gapScore and
\* difficultyScore in 0..100, distance penalty in 0..60, elevation penalty in
\* 0..40
C15_ScoreWithinBounds ==
    IsScore => /\ InRange(calc.out.winability, 0, 100)
               /\ InRange(calc.lb.winability, 0, 100)
               /\ InRange(calc.gapScore, 0, 100 * Scale)
               /\ InRange(calc.out.gapScore, 0, 100)
               /\ calc.difficultyScore \in 0..(100 * Scale)
               /\ InRange(calc.out.difficultyScore, 0, 100)
               /\ calc.distPenalty \in 0..(60 * Scale)
               /\ calc.elevPenalty \in 0..(40 * Scale)

\* the same bounds when the gap is a number, however negative or large
C15_NumericInputsWithinBounds == (IsScore /\ calc.gap.t = "num") => C15_ScoreWithinBounds

\* C16: the final score is round(clamp(gapScore * 0.65 + difficultyScore *
\* 0.25 + sprintBonus * 0.10, 0, 100)) of the function's own intermediates,
\* and the two copies of the weighted function return the same result
C16_WeightsAndCopiesAgree ==
    IsScore =>
        /\ calc.lb = calc.out
        /\ calc.gap.t = "num" =>
              calc.out.winability =
                 Num(Round(Max2(0, Min2(100 * Scale,
                        (calc.gapScore.v * 65 + calc.difficultyScore * 25
                         + calc.out.sprintBonus * Scale * 10) \div 100))))
        /\ calc.gap.t = "nan" => calc.out.winability = NaN

\* a call where no clamp is idle and the three terms all contribute
C16_Witness ==
    /\ IsScore /\ calc.gap = Num(20) /\ calc.d = 1000 /\ calc.e = 105
    /\ calc.out.winability = Num(61)

\* v is no larger than w; two NaN results do not differ
NotAbove(v, w) == IF v.t = "num" /\ w.t = "num" THEN v.v <= w.v ELSE v = w

\* C17: with the other inputs fixed, the returned weighted score does not
\* rise when the distance grows, nor when the elevation gain grows
C17_HarderIsNeverBetter ==
    IsScore =>
        /\ \A d2 \in Dists : d2 >= calc.d =>
              /\ NotAbove(computeWinability(calc.gap, d2, calc.e).winability,
                          calc.out.winability)
              /\ NotAbove(computeWinabilityLb(calc.gap, d2, calc.e).winability,
                          calc.lb.winability)
        /\ \A e2 \in Elevs : e2 >= calc.e =>
              /\ NotAbove(computeWinability(calc.gap, calc.d, e2).winability,
                          calc.out.winability)
              /\ NotAbove(computeWinabilityLb(calc.gap, calc.d, e2).winability,
                          calc.lb.winability)

\* a call just below the 600 m sprint step whose score drops across the step
C17_Witness ==
    /\ IsScore /\ calc.gap.t = "num" /\ calc.d = 600
    /\ computeWinability(calc.gap, 601, calc.e).winability.v < calc.out.winability.v

\* C18: with distance and elevation fixed, no scoring function returns a
\* higher score for a larger gap: the weighted function, its copy, and both
\* copies of the stepped function
C18_LargerGapIsNeverBetter ==
    (IsScore /\ calc.gap.t = "num") =>
        \A g2 \in Gaps : g2 >= calc.gap.v =>
            /\ NotAbove(computeWinability(Num(g2), calc.d, calc.e).winability,
                        calc.out.winability)
            /\ NotAbove(computeWinabilityLb(Num(g2), calc.d, calc.e).winability,
                        calc.lb.winability)
            /\ computeWinabilityStepped(Num(g2)).winability <= calc.st.winability
            /\ computeWinabilityStepped2(Num(g2)).score <= calc.st2.score

\* a call at the edge of a step of the stepped function, where one more
\* second lowers every score
C18_Witness ==
    /\ IsScore /\ calc.gap = Num(15)
    /\ computeWinabilityStepped(Num(16)).winability < calc.st.winability
    /\ computeWinabilityStepped2(Num(16)).score < calc.st2.score
    /\ computeWinability(Num(16), calc.d, calc.e).winability.v < calc.out.winability.v

(* ---- time properties ---- *)
IsParse == calc.fn = "parse"
IsFormat == calc.fn = "format"

\* a component that is a number: a non-empty run of digits, white space
\* around it allowed
IsNumberText(str) ==
    LET u == trim(str) IN u # <<>> /\ \A i \in 1..Len(u) : IsDigit(u[i])

ValueOf(str) == DecimalValue(trim(str))

\* what the specification asks of the parser for the text str
Parsed(str) ==
    LET c == split(trim(str))
    IN IF \E i \in 1..Len(c) : ~IsNumberText(c[i]) THEN Null
       ELSE IF Len(c) = 2 THEN Num(60 * ValueOf(c[1]) + ValueOf(c[2]))
       ELSE IF Len(c) = 3
            THEN Num(3600 * ValueOf(c[1]) + 60 * ValueOf(c[2]) + ValueOf(c[3]))
       ELSE Null

\* C19: parseTimeToSeconds returns 60M+S for "M:SS" and 3600H+60M+S for
\* "H:MM:SS"; a string with a component that is not a number or with a
\* component count other than 2 or 3, and a value that is neither a string
\* nor a finite number, give the absent value (both copies)
C19_ParseOrAbsent ==
    IsParse =>
        /\ calc.in.t = "str" => calc.out = Parsed(calc.in.s) /\ calc.out2 = Parsed(calc.in.s)
        /\ calc.in.t \notin {"str", "num"} => calc.out = Null /\ calc.out2 = Null

\* the two examples of the specification
C19_Examples ==
    /\ (IsParse /\ calc.in = Str(<<"5", ":", "5", "8">>)) =>
           calc.out = Num(358) /\ calc.out2 = Num(358)
    /\ (IsParse /\ calc.in = Str(<<"1", ":", "0", "2", ":", "0", "3">>)) =>
           calc.out = Num(3723) /\ calc.out2 = Num(3723)

\* the rendering the specification asks for s whole seconds, s >= 0
Rendered(s) ==
    IF s < 3600
    THEN Str(String(s \div 60) \o <<":">> \o padStart(String(s % 60)))
    ELSE Str(String(s \div 3600) \o <<":">> \o padStart(String((s % 3600) \div 60))
             \o <<":">> \o padStart(String(s % 60)))

\* C20: every formatter of elapsed time renders non-negative whole seconds
\* below 3600 as M:SS and from 3600 on as H:MM:SS, with two-digit minutes
\* (when hours are shown) and two-digit seconds in 00..59
C20_FormatsElapsedTime ==
    (IsFormat /\ calc.in.t = "num" /\ calc.in.v >= 0) =>
        /\ calc.mmss = Rendered(calc.in.v)
        /\ calc.time = Rendered(calc.in.v)
        /\ calc.time2 = Rendered(calc.in.v)

\* the formatter of the inline-refresh score route alone
C20_SecondsToTimeConforms ==
    (IsFormat /\ calc.in.t = "num" /\ calc.in.v >= 0) => calc.time = Rendered(calc.in.v)

(* ---- properties of the responses ---- *)
IsRespond == calc.fn = "respond"

\* the seconds a present reference stands for
SecondsOf(kom) == IF kom.t = "str" THEN Parsed(kom.s) ELSE kom

\* C11: in every score handler the gap is defined, and equals PR - reference,
\* exactly when PR and reference are both present; scoring is invoked
\* exactly when the gap is defined; otherwise the winability is null and the
\* note is not
C11_GapAndScoreWhenBothPresent ==
    IsRespond =>
        LET r == calc.out
            both == r.pr # Null /\ r.kom # Null
        IN /\ both <=> r.gap # Null
           /\ both => r.gap = Minus(r.pr, SecondsOf(r.kom))
           /\ r.scored <=> r.gap # Null
           /\ ~r.scored => r.winability = Null /\ r.note # NoNote

\* the part of C11 about the unscored result, in every handler
C11_UnscoredHasNote ==
    IsRespond => /\ calc.out.scored <=> calc.out.gap # Null
                 /\ ~calc.out.scored => calc.out.winability = Null /\ calc.out.note # NoNote

XomsHandlers == {"score_xoms", "score_inline", "score_norefresh"}

\* C12: in every handler that takes the reference from xoms, a reference
\* given as text "M:SS" or "H:MM:SS" and the same reference given as the
\* equal number of seconds lead to the same reference seconds, gap and score
C12_TextAndNumberAgree ==
    (/\ IsRespond /\ calc.h \in XomsHandlers
     /\ calc.kom.t = "str" /\ Parsed(calc.kom.s) # Null) =>
        LET n == Result(calc.h, calc.pr, Parsed(calc.kom.s), calc.overall,
                        calc.d, calc.elev[1], calc.elev[2])
        IN /\ calc.out.kom = n.kom
           /\ calc.out.gap = n.gap
           /\ calc.out.winability = n.winability

\* the same for the two handlers that parse the reference
C12_ParsingHandlersAgree ==
    (IsRespond /\ calc.h \in {"score_inline", "score_norefresh"}) => C12_TextAndNumberAgree
====
